---- MODULE Spec2Model ----
(***************************************************************************)
(* TrueAttendance simulator (src/useless/true_attendance_simulator.py).    *)
(*                                                                         *)
(* A Flask application whose whole state lives in a Redis store under the  *)
(* three keys secret_code, secret_timestamp and attendance_log.  Requests  *)
(* are served by independent, possibly concurrent handler invocations;     *)
(* every Redis command (and every executed MULTI/EXEC pipeline) is one     *)
(* atomic step, and whatever a handler does between two commands is local  *)
(* to it.                                                                  *)
(*                                                                         *)
(* An optional value (Python None or a value) is the empty sequence <<>>   *)
(* or the one-element sequence <<v>>.  An identity is a string, modelled   *)
(* as the sequence of its code points so that Python's string order can    *)
(* be computed.  A time is a whole number of seconds.                      *)
(***************************************************************************)
EXTENDS Integers, Sequences, FiniteSets, TLC

VARIABLES kv, store, clock, pc, loc, resp, accepted

vars == <<kv, store, clock, pc, loc, resp, accepted>>

\* kv         the module-level Redis client: TRUE a client, FALSE None
\* store      the three keys of the Redis store
\* clock      the value time.time() returns
\* pc, loc    where each handler invocation is, and its local variables;
\*            loc.handler names the handler, and loc.overlapped is history:
\*            whether another get_or_refresh_secret ran during this one
\* resp       the response of an invocation that has finished
\* accepted   history: for every member of attendance_log, the code its
\*            identity submitted when it was added

(***************************************************************************)
(* Program constant and bounds of the model.                               *)
(***************************************************************************)
SECRET_REFRESH_INTERVAL_SECONDS == 60

\* time.time() at the first request, the seconds between two observable
\* clock values, and the number of clock advances explored
StartTime == 90
TimeStep == 60
MaxTicks == 2

MaxTime == StartTime + MaxTicks * TimeStep

\* the concurrent handler invocations
Procs == {"r1", "r2"}

\* the strings random.choices can produce (8 characters of A-Z0-9)
GenCodes == {"A2B4C6D8", "ZZZZ9999"}

\* the values of the JSON field "code": absent, empty, a generated code,
\* the placeholder of get_or_refresh_secret
SubmittedCodes == {<<>>, <<"">>, <<"KV_NOT_AVAILABLE">>} \cup {<<c>> : c \in GenCodes}

\* identities "b1" and "a2" as code points
Identities == {<<98, 49>>, <<97, 50>>}

\* the members a present-set is listed with: "b1", "a2", "c0", "a", "B",
\* "10", "9"
ListedIdentities ==
    {<<98, 49>>, <<97, 50>>, <<99, 48>>, <<97>>, <<66>>, <<49, 48>>, <<57>>}

\* the values of the JSON field "student_id": absent, empty, an identity
SubmittedIds == {<<>>, << <<>> >>} \cup {<<i>> : i \in Identities}

(***************************************************************************)
(* Python helpers.                                                         *)
(***************************************************************************)
\* variant: only None counts as missing
NotTruthyStrNoneOnly(opt) == Len(opt) = 0

\* bool(x) is False for None and for the empty string
NotTruthyStr(opt) == IF Len(opt) = 0 THEN TRUE ELSE opt[1] = ""
NotTruthyId(opt) == IF Len(opt) = 0 THEN TRUE ELSE Len(opt[1]) = 0

\* kv.get('secret_timestamp') or 0, then float(...)
LastUpdateTime(opt) == IF Len(opt) = 0 THEN 0 ELSE opt[1]

\* variant: stale from the interval on
IsStaleAtInterval(now, last_update_time) ==
    (now - last_update_time) >= SECRET_REFRESH_INTERVAL_SECONDS

\* (time.time() - float(last_update_time)) > SECRET_REFRESH_INTERVAL_SECONDS
IsStale(now, last_update_time) ==
    (now - last_update_time) > SECRET_REFRESH_INTERVAL_SECONDS

\* str.__lt__: code point by code point, a proper prefix is smaller
RECURSIVE StrLess(_, _)
StrLess(a, b) ==
    IF b = <<>> THEN FALSE
    ELSE IF a = <<>> THEN TRUE
    ELSE IF Head(a) # Head(b) THEN Head(a) < Head(b)
    ELSE StrLess(Tail(a), Tail(b))

\* variant: the members in the order the store hands them out
RECURSIVE UnsortedSeq(_)
UnsortedSeq(S) ==
    IF S = {} THEN <<>>
    ELSE LET m == CHOOSE x \in S : TRUE
         IN <<m>> \o UnsortedSeq(S \ {m})

\* sorted(...) of a collection of distinct strings
RECURSIVE SortedSeq(_)
SortedSeq(S) ==
    IF S = {} THEN <<>>
    ELSE LET m == CHOOSE x \in S : \A y \in S \ {x} : StrLess(x, y)
         IN <<m>> \o SortedSeq(S \ {m})

(***************************************************************************)
(* The store: Redis commands.                                              *)
(***************************************************************************)
EmptyStore == [secret_code |-> <<>>, secret_timestamp |-> <<>>, attendance_log |-> {}]

\* kv.sadd('attendance_log', student_id)
SAdd(s, student_id) ==
    [s EXCEPT !.attendance_log = @ \cup {student_id}]

\* variant: the pipeline without its delete command
PipeExecuteKeepsLog(s, new_secret, stamp) ==
    [s EXCEPT !.secret_code = <<new_secret>>, !.secret_timestamp = <<stamp>>]

\* pipe.set('secret_code', ..); pipe.set('secret_timestamp', ..);
\* pipe.delete('attendance_log'); pipe.execute()  (a MULTI/EXEC transaction)
PipeExecute(s, new_secret, stamp) ==
    [secret_code |-> <<new_secret>>, secret_timestamp |-> <<stamp>>, attendance_log |-> {}]

\* kv.smembers('attendance_log'), decoded and sorted
PresentStudents(s) == SortedSeq(s.attendance_log)

(***************************************************************************)
(* Handler-local state and responses.                                      *)
(***************************************************************************)
NoLocals ==
    [handler |-> "none", overlapped |-> FALSE,
     student_id |-> <<>>, submitted_code |-> <<>>, last_update_time |-> 0,
     now |-> 0, is_stale |-> FALSE, new_secret |-> "", stamp |-> 0, current_secret |-> ""]

NoResponse ==
    [status |-> 0, kind |-> "none", secret_code |-> "", student |-> <<>>,
     present_students |-> <<>>]

\* jsonify({"secret_code": secret})
CodeResponse(secret) ==
    [NoResponse EXCEPT !.status = 200, !.kind = "secret_code", !.secret_code = secret]

\* the three responses of verify_attendance
MissingField == [NoResponse EXCEPT !.status = 400, !.kind = "MissingField"]
Accepted(student_id) ==
    [NoResponse EXCEPT !.status = 200, !.kind = "SUCCESS", !.student = student_id]
Rejected == [NoResponse EXCEPT !.status = 403, !.kind = "CodeMismatch"]

\* jsonify({"present_students": present_students})
LogResponse(students) ==
    [NoResponse EXCEPT !.status = 200, !.kind = "present_students",
                       !.present_students = students]

\* an exception escaping the handler (AttributeError on None): Flask answers 500
ServerError == [NoResponse EXCEPT !.status = 500, !.kind = "ServerError"]

Init ==
    /\ kv \in BOOLEAN
    /\ store = EmptyStore
    /\ clock = StartTime
    /\ pc = [p \in Procs |-> "idle"]
    /\ loc = [p \in Procs |-> NoLocals]
    /\ resp = [p \in Procs |-> NoResponse]
    /\ accepted = {}

(***************************************************************************)
(* The clock: time.time() never runs backwards.                            *)
(***************************************************************************)
Tick ==
    /\ clock + TimeStep <= MaxTime
    /\ clock' = clock + TimeStep
    /\ UNCHANGED <<kv, store, pc, loc, resp, accepted>>

(***************************************************************************)
(* GET /api/get-current-code: get_current_code -> get_or_refresh_secret.   *)
(***************************************************************************)
\* an invocation that is inside get_or_refresh_secret with a store
InGet(q) == pc[q] \in {"check_stale", "build_pipeline", "execute", "read_secret"}

\* lines 27-28: no store connection, the placeholder is the answer
GetNoStore(p) ==
    /\ pc[p] = "idle"
    /\ ~kv
    /\ loc' = [loc EXCEPT ![p].handler = "get_current_code"]
    /\ resp' = [resp EXCEPT ![p] = CodeResponse("KV_NOT_AVAILABLE")]
    /\ pc' = [pc EXCEPT ![p] = "done"]
    /\ UNCHANGED <<kv, store, clock, accepted>>

\* line 30: kv.get('secret_timestamp') or 0
GetReadTimestamp(p) ==
    /\ pc[p] = "idle"
    /\ kv
    /\ loc' = [q \in Procs |->
                 IF q = p
                 THEN [loc[p] EXCEPT
                         !.handler = "get_current_code",
                         !.overlapped = \E r \in Procs \ {p} : InGet(r),
                         !.last_update_time = LastUpdateTime(store.secret_timestamp)]
                 ELSE IF InGet(q) THEN [loc[q] EXCEPT !.overlapped = TRUE]
                 ELSE loc[q]]
    /\ pc' = [pc EXCEPT ![p] = "check_stale"]
    /\ UNCHANGED <<kv, store, clock, resp, accepted>>

\* lines 31-33: the clock is read and the branch is taken
GetCheckStale(p) ==
    /\ pc[p] = "check_stale"
    /\ LET stale == IsStale(clock, loc[p].last_update_time)
       IN /\ loc' = [loc EXCEPT ![p].now = clock, ![p].is_stale = stale]
          /\ pc' = [pc EXCEPT ![p] = IF stale THEN "build_pipeline" ELSE "read_secret"]
    /\ UNCHANGED <<kv, store, clock, resp, accepted>>

\* lines 35-41: the new secret is drawn and the pipeline is queued; the
\* timestamp is the value of time.time() when pipe.set is called
GetBuildPipeline(p) ==
    /\ pc[p] = "build_pipeline"
    /\ \E c \in GenCodes :
          loc' = [loc EXCEPT ![p].new_secret = c, ![p].stamp = clock]
    /\ pc' = [pc EXCEPT ![p] = "execute"]
    /\ UNCHANGED <<kv, store, clock, resp, accepted>>

\* variant: a pipeline that is no transaction and stops after its first command
GetExecuteTorn(p) ==
    /\ pc[p] = "execute"
    /\ store' = [store EXCEPT !.secret_code = <<loc[p].new_secret>>]
    /\ resp' = [resp EXCEPT ![p] = CodeResponse(loc[p].new_secret)]
    /\ pc' = [pc EXCEPT ![p] = "done"]
    /\ UNCHANGED <<kv, clock, loc, accepted>>

\* lines 42-43: pipe.execute() applies the three commands, new_secret is returned
GetExecute(p) ==
    /\ pc[p] = "execute"
    /\ store' = PipeExecute(store, loc[p].new_secret, loc[p].stamp)
    /\ accepted' = {}
    /\ resp' = [resp EXCEPT ![p] = CodeResponse(loc[p].new_secret)]
    /\ pc' = [pc EXCEPT ![p] = "done"]
    /\ UNCHANGED <<kv, clock, loc>>

\* variant: serving the stored code also renews its timestamp
GetReadSecretTouches(p) ==
    /\ pc[p] = "read_secret"
    /\ store' = [store EXCEPT !.secret_timestamp = <<clock>>]
    /\ resp' = [resp EXCEPT ![p] =
                  IF store.secret_code = <<>> THEN ServerError
                  ELSE CodeResponse(store.secret_code[1])]
    /\ pc' = [pc EXCEPT ![p] = "done"]
    /\ UNCHANGED <<kv, clock, loc, accepted>>

\* line 45: kv.get('secret_code').decode('utf-8'); None has no decode
GetReadSecret(p) ==
    /\ pc[p] = "read_secret"
    /\ resp' = [resp EXCEPT ![p] =
                  IF store.secret_code = <<>> THEN ServerError
                  ELSE CodeResponse(store.secret_code[1])]
    /\ pc' = [pc EXCEPT ![p] = "done"]
    /\ UNCHANGED <<kv, store, clock, loc, accepted>>

(***************************************************************************)
(* POST /api/verify-attendance: verify_attendance.                         *)
(***************************************************************************)
\* variant: the placeholder of get_or_refresh_secret passes as a code
CodeMatchesPlaceholder(submitted_code, current_secret) ==
    submitted_code = current_secret \/ submitted_code = "KV_NOT_AVAILABLE"

\* line 65: submitted_code == current_secret
CodeMatches(submitted_code, current_secret) == submitted_code = current_secret

\* lines 56-61: a missing or empty field is answered 400 before the store is used
VerifyMissingField(p) ==
    /\ pc[p] = "idle"
    /\ \E sid \in SubmittedIds, code \in SubmittedCodes :
          /\ NotTruthyId(sid) \/ NotTruthyStr(code)
          /\ loc' = [loc EXCEPT ![p].handler = "verify_attendance",
                                 ![p].student_id = sid, ![p].submitted_code = code]
    /\ resp' = [resp EXCEPT ![p] = MissingField]
    /\ pc' = [pc EXCEPT ![p] = "done"]
    /\ UNCHANGED <<kv, store, clock, accepted>>

\* lines 56-60: both fields are present
VerifyBegin(p) ==
    /\ pc[p] = "idle"
    /\ \E sid \in SubmittedIds, code \in SubmittedCodes :
          /\ ~(NotTruthyId(sid) \/ NotTruthyStr(code))
          /\ loc' = [loc EXCEPT ![p].handler = "verify_attendance",
                                 ![p].student_id = sid, ![p].submitted_code = code]
    /\ pc' = [pc EXCEPT ![p] = "verify_read"]
    /\ UNCHANGED <<kv, store, clock, resp, accepted>>

\* variant: without a stored code the handler compares against what
\* get_or_refresh_secret hands out
VerifyReadFallsBack(p) ==
    /\ pc[p] = "verify_read"
    /\ ~kv \/ store.secret_code = <<>>
    /\ loc' = [loc EXCEPT ![p].current_secret = "KV_NOT_AVAILABLE"]
    /\ pc' = [pc EXCEPT ![p] = "verify_compare"]
    /\ UNCHANGED <<kv, store, clock, resp, accepted>>

\* line 63: kv.get('secret_code').decode('utf-8') fails on a None kv and on
\* an absent key
VerifyReadFails(p) ==
    /\ pc[p] = "verify_read"
    /\ ~kv \/ store.secret_code = <<>>
    /\ resp' = [resp EXCEPT ![p] = ServerError]
    /\ pc' = [pc EXCEPT ![p] = "done"]
    /\ UNCHANGED <<kv, store, clock, loc, accepted>>

\* line 63: the stored code is read
VerifyReadSecret(p) ==
    /\ pc[p] = "verify_read"
    /\ kv /\ store.secret_code # <<>>
    /\ loc' = [loc EXCEPT ![p].current_secret = store.secret_code[1]]
    /\ pc' = [pc EXCEPT ![p] = "verify_compare"]
    /\ UNCHANGED <<kv, store, clock, resp, accepted>>

\* variant: an identity that is already present is turned away
VerifyAcceptOnce(p) ==
    /\ pc[p] = "verify_compare"
    /\ CodeMatches(loc[p].submitted_code[1], loc[p].current_secret)
    /\ store' = SAdd(store, loc[p].student_id[1])
    /\ accepted' = {e \in accepted : e[1] # loc[p].student_id[1]}
                      \cup {<<loc[p].student_id[1], loc[p].submitted_code[1]>>}
    /\ resp' = [resp EXCEPT ![p] =
                  IF loc[p].student_id[1] \in store.attendance_log
                  THEN Rejected ELSE Accepted(loc[p].student_id[1])]
    /\ pc' = [pc EXCEPT ![p] = "done"]
    /\ UNCHANGED <<kv, clock, loc>>

\* lines 65-67: the codes are equal, the identity is added to the set
VerifyAccept(p) ==
    /\ pc[p] = "verify_compare"
    /\ CodeMatches(loc[p].submitted_code[1], loc[p].current_secret)
    /\ store' = SAdd(store, loc[p].student_id[1])
    /\ accepted' = {e \in accepted : e[1] # loc[p].student_id[1]}
                      \cup {<<loc[p].student_id[1], loc[p].submitted_code[1]>>}
    /\ resp' = [resp EXCEPT ![p] = Accepted(loc[p].student_id[1])]
    /\ pc' = [pc EXCEPT ![p] = "done"]
    /\ UNCHANGED <<kv, clock, loc>>

\* variant: the 403 message names the code that was expected
VerifyRejectLeaks(p) ==
    /\ pc[p] = "verify_compare"
    /\ ~CodeMatches(loc[p].submitted_code[1], loc[p].current_secret)
    /\ resp' = [resp EXCEPT ![p] = [Rejected EXCEPT !.secret_code = loc[p].current_secret]]
    /\ pc' = [pc EXCEPT ![p] = "done"]
    /\ UNCHANGED <<kv, store, clock, loc, accepted>>

\* lines 68-69: the codes differ
VerifyReject(p) ==
    /\ pc[p] = "verify_compare"
    /\ ~CodeMatches(loc[p].submitted_code[1], loc[p].current_secret)
    /\ resp' = [resp EXCEPT ![p] = Rejected]
    /\ pc' = [pc EXCEPT ![p] = "done"]
    /\ UNCHANGED <<kv, store, clock, loc, accepted>>

(***************************************************************************)
(* GET /api/get-attendance-log: get_attendance_log.                        *)
(***************************************************************************)
\* lines 75-77: kv.smembers fails on a None kv; otherwise the sorted members
ListPresent(p) ==
    /\ pc[p] = "idle"
    /\ resp' = [resp EXCEPT ![p] =
                  IF kv THEN LogResponse(PresentStudents(store)) ELSE ServerError]
    /\ loc' = [loc EXCEPT ![p].handler = "get_attendance_log"]
    /\ pc' = [pc EXCEPT ![p] = "done"]
    /\ UNCHANGED <<kv, store, clock, accepted>>

\* the response is sent and the invocation ends; nothing of it survives
Return(p) ==
    /\ pc[p] = "done"
    /\ pc' = [pc EXCEPT ![p] = "idle"]
    /\ loc' = [loc EXCEPT ![p] = NoLocals]
    /\ resp' = [resp EXCEPT ![p] = NoResponse]
    /\ UNCHANGED <<kv, store, clock, accepted>>

Step(p) ==
    \/ GetNoStore(p)
    \/ GetReadTimestamp(p)
    \/ GetCheckStale(p)
    \/ GetBuildPipeline(p)
    \/ GetExecute(p)
    \/ GetReadSecret(p)
    \/ VerifyMissingField(p)
    \/ VerifyBegin(p)
    \/ VerifyReadFails(p)
    \/ VerifyReadSecret(p)
    \/ VerifyAccept(p)
    \/ VerifyReject(p)
    \/ ListPresent(p)
    \/ Return(p)

\* requests of any number of replicas interleave command by command
Next == Tick \/ \E p \in Procs : Step(p)

Spec == Init /\ [][Next]_vars

\* one request at a time: a handler runs only while no other invocation is
\* between its first step and the end of its response
Alone(p) == \A q \in Procs \ {p} : pc[q] = "idle"

NextSeq == Tick \/ \E p \in Procs : Alone(p) /\ Step(p)

SpecSeq == Init /\ [][NextSeq]_vars

(***************************************************************************)
(* Properties.                                                             *)
(***************************************************************************)
Log == store.attendance_log

Elements(seq) == {seq[i] : i \in 1..Len(seq)}

\* p has taken a step
StepBy(p) == pc'[p] # pc[p]

\* p has answered a verify_attendance request that had both fields
SubmitDone(p) ==
    /\ pc[p] = "done"
    /\ loc[p].handler = "verify_attendance"
    /\ ~NotTruthyId(loc[p].student_id)
    /\ ~NotTruthyStr(loc[p].submitted_code)

\* p has answered a get-current-code request served from the store
GetDone(p) ==
    /\ pc[p] = "done"
    /\ loc[p].handler = "get_current_code"
    /\ resp[p].kind = "secret_code"
    /\ kv

\* p's step is pipe.execute()
Rotates(p) == pc[p] = "execute" /\ pc'[p] = "done"

(***************************************************************************)
(* C1.  With requests served one at a time, a submission with a non-empty  *)
(* identity and code, made while a secret_code is stored, is answered      *)
(* Accepted exactly when the code equals the stored secret_code, whatever  *)
(* the age of secret_timestamp, and Rejected otherwise; after Accepted the *)
(* identity is in the listing, and no step of a submission other than the  *)
(* accepting sadd changes the store.                                       *)
(***************************************************************************)
C1_Outcome ==
    \A p \in Procs :
        (SubmitDone(p) /\ kv /\ Len(store.secret_code) > 0) =>
            LET id == loc[p].student_id[1]
                code == loc[p].submitted_code[1]
            IN IF code = store.secret_code[1]
               THEN resp[p] = Accepted(id) /\ id \in Elements(PresentStudents(store))
               ELSE resp[p] = Rejected

C1_RejectedKeepsStore ==
    \A p \in Procs :
        (/\ StepBy(p)
         /\ loc'[p].handler = "verify_attendance"
         /\ pc'[p] # "idle"
         /\ resp'[p].kind # "SUCCESS") => store' = store

C1_SubmitCorrectness == [](C1_Outcome) /\ [][C1_RejectedKeepsStore]_vars

\* a wrong code is rejected while somebody else is present and the stored
\* timestamp is older than the interval
C1_Witness ==
    \E p \in Procs :
        /\ SubmitDone(p)
        /\ resp[p] = Rejected
        /\ Log # {}
        /\ loc[p].student_id[1] \notin Log
        /\ Len(store.secret_timestamp) > 0
        /\ clock - store.secret_timestamp[1] > SECRET_REFRESH_INTERVAL_SECONDS

(***************************************************************************)
(* C2.  As claimed: the pipeline of a call that found the stored           *)
(* timestamp stale (and that timestamp is still the stored one) leaves the *)
(* present-set empty, secret_timestamp equal to the time the call took for *)
(* it, secret_code equal to the returned code, and that code different     *)
(* from the code stored before.                                            *)
(***************************************************************************)
C2_RotationAsClaimed ==
    [][\A p \in Procs :
          (/\ Rotates(p)
           /\ loc[p].is_stale
           /\ loc[p].last_update_time = LastUpdateTime(store.secret_timestamp)) =>
              /\ store'.attendance_log = {}
              /\ store'.secret_timestamp = <<loc[p].stamp>>
              /\ store'.secret_code = <<resp'[p].secret_code>>
              /\ store'.secret_code # store.secret_code]_vars

(***************************************************************************)
(* C2, amended.  The pipeline of a call that found the secret stale at     *)
(* time now leaves the present-set empty, secret_timestamp equal to the    *)
(* time the call read when it queued the pipeline (not before now, not     *)
(* after the execution), and secret_code equal to the returned code, which *)
(* is one of the codes the generator can draw and may be the code that was *)
(* stored before.                                                          *)
(***************************************************************************)
C2_RotationEffect ==
    [][\A p \in Procs :
          Rotates(p) =>
              /\ loc[p].is_stale
              /\ IsStale(loc[p].now, loc[p].last_update_time)
              /\ store'.attendance_log = {}
              /\ store'.secret_timestamp = <<loc[p].stamp>>
              /\ loc[p].now <= loc[p].stamp
              /\ loc[p].stamp <= clock
              /\ store'.secret_code = <<resp'[p].secret_code>>
              /\ resp'[p].secret_code \in GenCodes]_vars

\* a call that found the code of an earlier rotation stale has replaced it
C2_Witness ==
    \E p \in Procs :
        /\ GetDone(p)
        /\ loc[p].is_stale
        /\ loc[p].last_update_time > 0
        /\ loc[p].now - loc[p].last_update_time > SECRET_REFRESH_INTERVAL_SECONDS
        /\ store = PipeExecute(store, resp[p].secret_code, loc[p].stamp)

(***************************************************************************)
(* C3.  As claimed: a call that returned c for the rotation stamped t, and *)
(* any other call made at a time now with t <= now <= t + interval, return *)
(* the same code, whatever requests overlap them.                          *)
(***************************************************************************)
\* the timestamp of the rotation whose code p returned
EpochOf(p) == IF loc[p].is_stale THEN loc[p].stamp ELSE loc[p].last_update_time

InWindow(p, q) ==
    /\ EpochOf(p) <= loc[q].now
    /\ loc[q].now - EpochOf(p) <= SECRET_REFRESH_INTERVAL_SECONDS

C3_SameCodeAsClaimed ==
    \A p, q \in Procs :
        (p # q /\ GetDone(p) /\ GetDone(q) /\ InWindow(p, q)) =>
            resp[q].secret_code = resp[p].secret_code

(***************************************************************************)
(* C3, amended.  Two get-current-code calls, neither of which ran while    *)
(* another get-current-code request was in progress, return the same code  *)
(* when the second is made within the interval of the rotation whose code  *)
(* the first returned, whatever submissions and listings overlap them.     *)
(***************************************************************************)
C3_SameCodeWithinInterval ==
    \A p, q \in Procs :
        (/\ p # q /\ GetDone(p) /\ GetDone(q) /\ InWindow(p, q)
         /\ ~loc[p].overlapped /\ ~loc[q].overlapped) =>
            resp[q].secret_code = resp[p].secret_code

\* a call rotated, somebody was marked present, and a later call made
\* exactly one interval after the rotation returned the same code
C3_Witness ==
    \E p, q \in Procs :
        /\ p # q /\ GetDone(p) /\ GetDone(q)
        /\ ~loc[p].overlapped /\ ~loc[q].overlapped
        /\ loc[p].is_stale /\ ~loc[q].is_stale
        /\ loc[q].now - loc[p].stamp = SECRET_REFRESH_INTERVAL_SECONDS
        /\ Log # {}
        /\ resp[q].secret_code = resp[p].secret_code

(***************************************************************************)
(* C4.  As claimed: every identity in the present-set submitted the code   *)
(* that is stored now, under any interleaving of requests.                 *)
(***************************************************************************)
C4_PresentSubmittedStoredCode ==
    \A e \in accepted : store.secret_code = <<e[2]>>

(***************************************************************************)
(* C5.  The three writes of a rotation are one step: pipe.execute()        *)
(* installs the executing call's own code and timestamp together with an   *)
(* empty present-set, and no other step changes secret_code or             *)
(* secret_timestamp or removes an identity; so the stored code and         *)
(* timestamp are always those of one rotation, also when two calls that    *)
(* both found the secret stale both rotate.                                *)
(***************************************************************************)
C5_RotationIsAtomic ==
    [][/\ \A p \in Procs :
             Rotates(p) =>
                 store' = [secret_code |-> <<loc[p].new_secret>>,
                           secret_timestamp |-> <<loc[p].stamp>>,
                           attendance_log |-> {}]
       /\ (\/ store'.secret_code # store.secret_code
           \/ store'.secret_timestamp # store.secret_timestamp
           \/ ~(Log \subseteq store'.attendance_log)) =>
              \E p \in Procs : Rotates(p)]_vars

\* two calls read the same timestamp, both found it stale and both rotated,
\* with different codes and different timestamps; the second triple is stored
C5_Witness ==
    \E p, q \in Procs :
        /\ p # q /\ GetDone(p) /\ GetDone(q)
        /\ loc[p].is_stale /\ loc[q].is_stale
        /\ loc[p].last_update_time = loc[q].last_update_time
        /\ loc[p].stamp # loc[q].stamp
        /\ resp[p].secret_code # resp[q].secret_code
        /\ store = PipeExecute(store, resp[q].secret_code, loc[q].stamp)

(***************************************************************************)
(* C6.  As claimed: no step makes the stored secret_timestamp smaller.     *)
(***************************************************************************)
C6_TimestampNeverDecreases ==
    [][LastUpdateTime(store'.secret_timestamp)
          >= LastUpdateTime(store.secret_timestamp)]_vars

(***************************************************************************)
(* C7.  A submission of the code it read from the store, by an identity    *)
(* that is already present, is answered Accepted and leaves the store as   *)
(* it was; the identity is listed exactly once.                            *)
(***************************************************************************)
Occurrences(seq, x) == Cardinality({i \in 1..Len(seq) : seq[i] = x})

C7_IdempotentSubmission ==
    [][\A p \in Procs :
          (/\ pc[p] = "verify_compare"
           /\ StepBy(p)
           /\ loc[p].submitted_code[1] = loc[p].current_secret
           /\ loc[p].student_id[1] \in Log) =>
              /\ resp'[p] = Accepted(loc[p].student_id[1])
              /\ store' = store
              /\ Occurrences(PresentStudents(store'), loc[p].student_id[1]) = 1]_vars

\* the same identity has been accepted twice with the stored code, next to
\* another identity, and is listed once
C7_Witness ==
    \E p, q \in Procs :
        /\ p # q /\ SubmitDone(p) /\ SubmitDone(q)
        /\ loc[p].student_id = loc[q].student_id
        /\ loc[p].submitted_code = store.secret_code
        /\ loc[q].submitted_code = store.secret_code
        /\ resp[p].kind = "SUCCESS" /\ resp[q].kind = "SUCCESS"
        /\ Cardinality(Log) = 2
        /\ Occurrences(PresentStudents(store), loc[p].student_id[1]) = 1

(***************************************************************************)
(* C8.  A verify_attendance request whose identity or code is absent or    *)
(* empty is answered MissingField (400), with or without a store and also  *)
(* when the code is the stored secret_code, and leaves the store as it was.*)
(***************************************************************************)
AbsentOrEmptyId(opt) == opt \in {<<>>, << <<>> >>}

AbsentOrEmptyCode(opt) == opt \in {<<>>, <<"">>}

C8_Answer ==
    \A p \in Procs :
        (/\ pc[p] = "done"
         /\ loc[p].handler = "verify_attendance"
         /\ (AbsentOrEmptyId(loc[p].student_id) \/ AbsentOrEmptyCode(loc[p].submitted_code))) =>
            /\ resp[p] = MissingField
            /\ resp[p].status = 400

C8_KeepsStore ==
    \A p \in Procs :
        (/\ StepBy(p)
         /\ loc'[p].handler = "verify_attendance"
         /\ (AbsentOrEmptyId(loc'[p].student_id) \/ AbsentOrEmptyCode(loc'[p].submitted_code))) =>
            store' = store

C8_MissingFieldValidation == [](C8_Answer) /\ [][C8_KeepsStore]_vars

\* an empty identity with the stored code is turned away
C8_Witness ==
    \E p \in Procs :
        /\ pc[p] = "done"
        /\ loc[p].handler = "verify_attendance"
        /\ loc[p].student_id = << <<>> >>
        /\ Len(store.secret_code) > 0
        /\ loc[p].submitted_code = store.secret_code
        /\ resp[p].status = 400

(***************************************************************************)
(* C9.  get_attendance_log answers with exactly the members of the         *)
(* present-set, each once, in ascending string order; an empty or absent   *)
(* set gives the empty sequence.  Checked for every present-set over       *)
(* ListedIdentities.                                                       *)
(***************************************************************************)
InitList ==
    /\ kv = TRUE
    /\ \E c \in GenCodes, members \in SUBSET ListedIdentities :
          /\ store = [secret_code |-> <<c>>, secret_timestamp |-> <<StartTime>>,
                      attendance_log |-> members]
          /\ accepted = {<<i, c>> : i \in members}
    /\ clock = StartTime
    /\ pc = [p \in Procs |-> "idle"]
    /\ loc = [p \in Procs |-> NoLocals]
    /\ resp = [p \in Procs |-> NoResponse]

NextList == \E p \in Procs : ListPresent(p) \/ Return(p)

SpecList == InitList /\ [][NextList]_vars

\* a comes before b in the order of Python strings: at the first position
\* where they differ a has the smaller code point, or a ends there
Precedes(a, b) ==
    \E k \in 1..(Len(b)) :
        /\ \A i \in 1..(k - 1) : i <= Len(a) /\ a[i] = b[i]
        /\ k - 1 <= Len(a)
        /\ (k = Len(a) + 1 \/ a[k] < b[k])

C9_ListPresentSorted ==
    \A p \in Procs :
        (pc[p] = "done" /\ loc[p].handler = "get_attendance_log" /\ kv) =>
            LET r == resp[p].present_students
            IN /\ resp[p].status = 200
               /\ Len(r) = Cardinality(Log)
               /\ Elements(r) = Log
               /\ \A i, j \in 1..Len(r) : i < j => Precedes(r[i], r[j])
               /\ (Log = {<<98, 49>>, <<97, 50>>, <<99, 48>>}) =>
                      r = << <<97, 50>>, <<98, 49>>, <<99, 48>> >>

\* the listing of {"b1", "a2", "c0"} and the listing of the empty set
C9_Witness ==
    \E p \in Procs :
        /\ pc[p] = "done" /\ loc[p].handler = "get_attendance_log"
        /\ Log = {<<98, 49>>, <<97, 50>>, <<99, 48>>}
        /\ resp[p].present_students = << <<97, 50>>, <<98, 49>>, <<99, 48>> >>

(***************************************************************************)
(* C10.  No step of verify_attendance or get_attendance_log changes        *)
(* secret_code or secret_timestamp, however old the timestamp; no step of  *)
(* get_attendance_log, and no step of get_or_refresh_secret other than     *)
(* pipe.execute(), changes any of the three keys; and every step other     *)
(* than pipe.execute() leaves every present identity present.              *)
(***************************************************************************)
HandlerOfStep(p) == IF pc[p] = "idle" THEN loc'[p].handler ELSE loc[p].handler

C10_Frame ==
    [][/\ \A p \in Procs :
             StepBy(p) =>
                 /\ HandlerOfStep(p) = "verify_attendance" =>
                        /\ store'.secret_code = store.secret_code
                        /\ store'.secret_timestamp = store.secret_timestamp
                        /\ Log \subseteq store'.attendance_log
                 /\ HandlerOfStep(p) = "get_attendance_log" => store' = store
                 /\ (HandlerOfStep(p) = "get_current_code" /\ ~Rotates(p)) =>
                        store' = store
       /\ (\A p \in Procs : ~Rotates(p)) =>
              /\ store'.secret_code = store.secret_code
              /\ store'.secret_timestamp = store.secret_timestamp
              /\ Log \subseteq store'.attendance_log]_vars

\* a second identity has been accepted while the stored timestamp is older
\* than the interval, and the code and timestamp are still stored
C10_Witness ==
    \E p \in Procs :
        /\ SubmitDone(p)
        /\ resp[p].kind = "SUCCESS"
        /\ Cardinality(Log) = 2
        /\ Len(store.secret_timestamp) > 0
        /\ clock - store.secret_timestamp[1] > SECRET_REFRESH_INTERVAL_SECONDS
        /\ store.secret_code = loc[p].submitted_code

(***************************************************************************)
(* C11.  As claimed: without a store connection get_current_code fails     *)
(* (a 5xx answer) and hands no value out as a secret code.                 *)
(***************************************************************************)
C11_NoStoreFails ==
    \A p \in Procs :
        (pc[p] = "done" /\ loc[p].handler = "get_current_code" /\ ~kv) =>
            /\ resp[p].status >= 500
            /\ resp[p].kind # "secret_code"

(***************************************************************************)
(* C12.  As claimed: with a store connection, a submission with a          *)
(* non-empty identity and code is answered Accepted or Rejected in every   *)
(* store state, also before the first rotation, where it is not Accepted   *)
(* and the present-set stays empty.                                        *)
(***************************************************************************)
C12_SubmitAlwaysAnswers ==
    \A p \in Procs :
        (SubmitDone(p) /\ kv) =>
            /\ resp[p].kind \in {"SUCCESS", "CodeMismatch"}
            /\ (store.secret_code = <<>>) => (resp[p].kind = "CodeMismatch" /\ Log = {})

(***************************************************************************)
(* C13.  get_or_refresh_secret reads an absent secret_timestamp as 0 and   *)
(* takes the rotating branch exactly when the time it reads next exceeds   *)
(* the timestamp by more than 60 seconds: at exactly 60 seconds it goes on *)
(* to return the stored code without writing, and a call that has taken    *)
(* the rotating branch executes its pipeline as its next store command.    *)
(***************************************************************************)
C13_RotatesIffStale ==
    [][\A p \in Procs :
          /\ (pc[p] = "idle" /\ pc'[p] = "check_stale") =>
                 loc'[p].last_update_time =
                     (IF store.secret_timestamp = <<>> THEN 0
                      ELSE store.secret_timestamp[1])
          /\ (pc[p] = "check_stale" /\ StepBy(p)) =>
                 /\ loc'[p].now = clock
                 /\ (clock - loc[p].last_update_time > 60) =>
                        (loc'[p].is_stale /\ pc'[p] = "build_pipeline")
                 /\ (clock - loc[p].last_update_time <= 60) =>
                        (~loc'[p].is_stale /\ pc'[p] = "read_secret")
          /\ (pc[p] = "build_pipeline" /\ StepBy(p)) =>
                 (pc'[p] = "execute" /\ store' = store)
          /\ (pc[p] = "execute" /\ StepBy(p)) =>
                 (Rotates(p) /\ loc[p].is_stale)
          /\ (pc[p] = "read_secret" /\ StepBy(p)) =>
                 /\ ~loc[p].is_stale
                 /\ store' = store
                 /\ store.secret_code # <<>> =>
                        resp'[p] = CodeResponse(store.secret_code[1])]_vars

\* a call made exactly 60 seconds after the stored timestamp has returned
\* the stored code without rotating
C13_Witness ==
    \E p \in Procs :
        /\ GetDone(p)
        /\ ~loc[p].is_stale
        /\ store.secret_timestamp = <<loc[p].last_update_time>>
        /\ loc[p].now - loc[p].last_update_time = SECRET_REFRESH_INTERVAL_SECONDS
        /\ clock = loc[p].now
        /\ store.secret_code = <<resp[p].secret_code>>

(***************************************************************************)
(* C14.  With the clock more than 60 seconds past zero: secret_code is     *)
(* stored exactly when secret_timestamp is, a stored code is one of the    *)
(* generator's tokens, 8 characters long, a call that read the empty       *)
(* store takes the rotating branch, a call in the non-rotating branch      *)
(* finds a code stored, and no get-current-code call made with a store     *)
(* connection ends in a failure.                                           *)
(***************************************************************************)
C14_CodeAndTimestampTogether ==
    /\ (store.secret_code = <<>>) <=> (store.secret_timestamp = <<>>)
    /\ store.secret_code # <<>> =>
           (store.secret_code[1] \in GenCodes /\ Len(store.secret_code[1]) = 8)
    /\ \A p \in Procs :
           /\ (InGet(p) /\ pc[p] # "check_stale" /\ loc[p].last_update_time = 0) =>
                  (loc[p].is_stale /\ pc[p] # "read_secret")
           /\ pc[p] = "read_secret" => store.secret_code # <<>>
           /\ (pc[p] = "done" /\ loc[p].handler = "get_current_code" /\ kv) =>
                  (resp[p].kind = "secret_code" /\ resp[p].secret_code \in GenCodes)

\* the first call on the empty store has rotated and returned its code, and
\* another call is in the non-rotating branch
C14_Witness ==
    \E p, q \in Procs :
        /\ GetDone(p)
        /\ loc[p].is_stale
        /\ loc[p].last_update_time = 0
        /\ store = PipeExecute(store, resp[p].secret_code, loc[p].stamp)
        /\ pc[q] = "read_secret"

(***************************************************************************)
(* C15.  Without a store connection no verify_attendance request is        *)
(* answered SUCCESS, whatever code it carries, and the present-set stays   *)
(* empty.                                                                  *)
(***************************************************************************)
C15_NoStoreNoAcceptance ==
    ~kv => /\ Log = {}
           /\ accepted = {}
           /\ \A p \in Procs :
                  (pc[p] = "done" /\ loc[p].handler = "verify_attendance") =>
                      /\ resp[p].kind # "SUCCESS"
                      /\ resp[p].status # 200

\* without a store connection one request has been handed the placeholder
\* and another, submitting the placeholder, has failed
C15_Witness ==
    \E p, q \in Procs :
        /\ ~kv
        /\ pc[p] = "done" /\ loc[p].handler = "get_current_code"
        /\ resp[p].secret_code = "KV_NOT_AVAILABLE"
        /\ SubmitDone(q)
        /\ loc[q].submitted_code = <<resp[p].secret_code>>
        /\ resp[q] = ServerError

(***************************************************************************)
(* C16.  Two requests that carry the same identity and code, have read     *)
(* different stored codes and are both turned away with 403 have been      *)
(* given the same response, which names no code; and the step that turns   *)
(* a request away leaves the store as it was.                              *)
(***************************************************************************)
TurnedAway(p) == SubmitDone(p) /\ resp[p].status = 403

C16_SameAnswer ==
    \A p, q \in Procs :
        (/\ TurnedAway(p) /\ TurnedAway(q)
         /\ loc[p].student_id = loc[q].student_id
         /\ loc[p].submitted_code = loc[q].submitted_code) =>
            /\ resp[p] = resp[q]
            /\ resp[p].secret_code = ""

C16_KeepsStore ==
    \A p \in Procs :
        (pc[p] = "verify_compare" /\ StepBy(p) /\ resp'[p].status = 403) =>
            store' = store

C16_RejectionIndependentOfCode == [](C16_SameAnswer) /\ [][C16_KeepsStore]_vars

\* the same submission has been turned away against two different stored codes
C16_Witness ==
    \E p, q \in Procs :
        /\ p # q /\ TurnedAway(p) /\ TurnedAway(q)
        /\ loc[p].student_id = loc[q].student_id
        /\ loc[p].submitted_code = loc[q].submitted_code
        /\ loc[p].current_secret # loc[q].current_secret
        /\ resp[p] = resp[q]

(***************************************************************************)
(* C17.  Liveness of the epoch cycle.  The store is connected, time goes   *)
(* on without bound, get-current-code requests keep arriving and every     *)
(* request that has started keeps being run.                               *)
(***************************************************************************)
\* line 31 uses time only through time.time() - float(last_update_time), so
\* when the clock has reached LiveMaxTime a further TimeStep is taken by
\* moving every recorded time back instead; a time that would fall below
\* zero stays at 0, which is more than the interval behind LiveMaxTime
\* either way
LiveMaxTime == StartTime + TimeStep

Shift(t) == IF t > TimeStep THEN t - TimeStep ELSE 0

TickLive ==
    /\ IF clock + TimeStep <= LiveMaxTime
          THEN /\ clock' = clock + TimeStep
               /\ UNCHANGED <<store, loc>>
          ELSE /\ clock' = clock
               /\ store' = [store EXCEPT !.secret_timestamp =
                               IF Len(@) = 0 THEN @ ELSE <<Shift(@[1])>>]
               /\ loc' = [p \in Procs |->
                             [loc[p] EXCEPT !.last_update_time = Shift(@),
                                            !.now = Shift(@),
                                            !.stamp = Shift(@)]]
    /\ UNCHANGED <<kv, pc, resp, accepted>>

\* the steps a started request takes on its own, up to its return
Continue(p) ==
    \/ GetCheckStale(p)
    \/ GetBuildPipeline(p)
    \/ GetExecute(p)
    \/ GetReadSecret(p)
    \/ VerifyReadFails(p)
    \/ VerifyReadSecret(p)
    \/ VerifyAccept(p)
    \/ VerifyReject(p)
    \/ Return(p)

\* the arrival of a request
Arrive(p) ==
    \/ GetReadTimestamp(p)
    \/ VerifyMissingField(p)
    \/ VerifyBegin(p)
    \/ ListPresent(p)

\* the submissions that arrive: one identity with one code, or no identity
LiveIds == {<<>>, <<CHOOSE i \in Identities : TRUE>>}

LiveCodes == {<<CHOOSE c \in GenCodes : TRUE>>}

ArriveLive(p) ==
    /\ Arrive(p)
    /\ loc'[p].handler = "verify_attendance" =>
           (loc'[p].student_id \in LiveIds /\ loc'[p].submitted_code \in LiveCodes)

InitLive == Init /\ kv

NextLive == TickLive \/ \E p \in Procs : ArriveLive(p) \/ Continue(p)

SpecLive ==
    /\ InitLive
    /\ [][NextLive]_vars
    /\ WF_vars(TickLive)
    /\ \A p \in Procs : WF_vars(Continue(p))
    /\ SF_vars(\E p \in Procs : GetReadTimestamp(p))

\* C17: a rotation is executed again and again (each one overwrites the
\* stored code with its newly drawn one), every identity that is in the
\* present-set is later not in it, and every request that has started
\* reaches its response.
C17_RotatesForever == []<><<\E p \in Procs : GetExecute(p)>>_vars

C17_PresentCleared == \A i \in Identities : (i \in Log) ~> (i \notin Log)

C17_RequestCompletes == \A p \in Procs : (pc[p] # "idle") ~> (pc[p] = "done")

C17_EpochCycleLive ==
    /\ C17_RotatesForever
    /\ C17_PresentCleared
    /\ C17_RequestCompletes

\* an identity was accepted and a later rotation, of a call that read a
\* stored timestamp after time had passed LiveMaxTime, has cleared the
\* present-set
C17_Witness ==
    \E p, q \in Procs :
        /\ SubmitDone(q) /\ resp[q].kind = "SUCCESS"
        /\ GetDone(p) /\ loc[p].is_stale
        /\ loc[p].last_update_time > 0 /\ loc[p].last_update_time < StartTime
        /\ store.secret_timestamp = <<loc[p].stamp>>
        /\ Log = {}

====
